---- MODULE Spec2Model ----
(***************************************************************************)
(* Gym Store backend (src/main.py): the product handlers over the          *)
(* "product" collection, the document serializer and the /test diagnostic. *)
(***************************************************************************)
EXTENDS Integers, Sequences, FiniteSets, TLC

VARIABLES
    store,      \* the "product" collection, in the store's natural (insertion) order
    pc,         \* per worker: "idle", or "seed_loop" inside seed_products' for loop
    seedIdx,    \* per worker: index of the next sample product of the seed loop
    seedLog,    \* per worker: gateway calls made so far by its running seed request
    last,       \* the most recently completed request with its response
    created,    \* successful create_product requests: {[product, id]}
    sin,        \* serializer harness: the record as it was before the call
    sdoc,       \* serializer harness: the caller's record object
    sret1,      \* serializer harness: serialize_doc(sdoc)
    sret2,      \* serializer harness: serialize_doc(sret1)
    sphase,     \* serializer harness: "input", "once", "twice"
    tresp       \* /test harness: the last test_database response

vars == <<store, pc, seedIdx, seedLog, last, created, sin, sdoc, sret1, sret2, sphase, tresp>>
storeVars == <<store, pc, seedIdx, seedLog, last, created>>
serVars == <<sin, sdoc, sret1, sret2, sphase>>

------------------------------------------------------------------------------
(* Bounds *)
MaxCreates == 1     \* create_product requests that reach the store
MaxLimit == 1       \* largest `limit` query parameter tried
MaxOid == 1         \* serializer harness: ObjectId values 1..MaxOid
MaxTick == 1        \* serializer harness: datetime values 0..MaxTick
MaxErrLen == 52     \* /test harness: longest exception text
MaxColls == 12      \* /test harness: most collection names in the database

\* Two request workers run handlers concurrently: the two interleaving calls
\* of seed_products that the race on the existence check needs.
Procs == {1, 2}

------------------------------------------------------------------------------
(* Python values: a tag and a payload *)
None == [t |-> "NoneType", v |-> 0]
Str(s) == [t |-> "str", v |-> s]
PyInt(n) == [t |-> "int", v |-> n]
Float(cents) == [t |-> "float", v |-> cents]
Bool(b) == [t |-> "bool", v |-> b]
ObjectId(n) == [t |-> "ObjectId", v |-> n]
Datetime(n) == [t |-> "datetime", v |-> n]

EmptyDict == <<>>

IsDict(x) == x # None /\ "t" \notin DOMAIN x

\* Python truthiness of the values the handlers test
Truthy(x) ==
    IF x = None THEN FALSE
    ELSE IF IsDict(x) THEN DOMAIN x # {}
    ELSE IF x.t = "str" THEN x.v # ""
    ELSE IF x.t = "bool" THEN x.v
    ELSE IF x.t \in {"int", "float"} THEN x.v # 0
    ELSE TRUE

Pop(d, k) == [x \in DOMAIN d \ {k} |-> d[x]]
SetItem(d, k, v) == [x \in DOMAIN d \cup {k} |-> IF x = k THEN v ELSE d[x]]

HexChars == <<"0", "1", "2", "3", "4", "5", "6", "7", "8", "9", "a", "b", "c", "d", "e", "f">>

RECURSIVE Hex(_)
Hex(n) == IF n < 16 THEN HexChars[n + 1] ELSE Hex(n \div 16) \o HexChars[(n % 16) + 1]

RECURSIVE ZFill(_, _)
ZFill(s, width) == IF Len(s) >= width THEN s ELSE ZFill("0" \o s, width)

TwoDigits(n) == ZFill(ToString(n), 2)

\* datetime.isoformat()
isoformat(v) == Str("2024-01-01T00:00:" \o TwoDigits(v.v))

\* hasattr(v, "isoformat")
hasattr_isoformat(v) == v.t = "datetime"

\* str(v)
str(v) ==
    IF v.t = "str" THEN v
    ELSE IF v.t = "ObjectId" THEN Str(ZFill(Hex(v.v), 24))
    ELSE IF v.t = "datetime" THEN Str("2024-01-01 00:00:" \o TwoDigits(v.v))
    ELSE IF v.t = "float" THEN Str(ToString(v.v \div 100) \o "." \o TwoDigits(v.v % 100))
    ELSE IF v.t = "int" THEN Str(ToString(v.v))
    ELSE IF v.t = "bool" THEN Str(IF v.v THEN "True" ELSE "False")
    ELSE Str("None")

------------------------------------------------------------------------------
(* serialize_doc *)

\* the "_id" branch without its `if "_id" in d` guard: d["id"] = str(d.pop("_id", None))
rename_id_unguarded(d) ==
    SetItem(Pop(d, "_id"), "id", str(IF "_id" \in DOMAIN d THEN d["_id"] ELSE None))

\* the identifier moved without str(): d["id"] = d.pop("_id")
rename_id_raw(d) ==
    IF "_id" \in DOMAIN d THEN SetItem(Pop(d, "_id"), "id", d["_id"]) ELSE d

\* if "_id" in d: d["id"] = str(d.pop("_id"))
rename_id(d) ==
    IF "_id" \in DOMAIN d THEN SetItem(Pop(d, "_id"), "id", str(d["_id"])) ELSE d

\* for k, v in list(d.items()): if hasattr(v, "isoformat"): d[k] = v.isoformat()
convert_datetimes(d) ==
    [k \in DOMAIN d |-> IF hasattr_isoformat(d[k]) THEN isoformat(d[k]) ELSE d[k]]

\* the same function working on the caller's object: d = doc
serialize_doc_run_alias(doc) ==
    IF ~Truthy(doc) THEN [doc |-> doc, ret |-> doc]
    ELSE LET d == convert_datetimes(rename_id(doc)) IN [doc |-> d, ret |-> d]

\* One call of serialize_doc: the caller's object after the call and the returned object
serialize_doc_run(doc) ==
    IF ~Truthy(doc) THEN [doc |-> doc, ret |-> doc]
    ELSE LET d == doc     \* d = doc.copy(): every later write goes to the copy
         IN [doc |-> doc, ret |-> convert_datetimes(rename_id(d))]

serialize_doc(doc) == serialize_doc_run(doc).ret

\* [serialize_doc(x) for x in items]
serialize_all(items) == [i \in 1..Len(items) |-> serialize_doc(items[i])]

------------------------------------------------------------------------------
(* schemas.Product and the request bodies tried *)

ProductFields == {"title", "description", "price", "category", "in_stock"}

MkProduct(title, description, cents, category, in_stock) ==
    [k \in ProductFields |->
        CASE k = "title" -> Str(title)
          [] k = "description" -> Str(description)
          [] k = "price" -> Float(cents)
          [] k = "category" -> Str(category)
          [] OTHER -> Bool(in_stock)]

\* the request-validation layer's check of a body against the Product shape
ProductValid(body) ==
    /\ ProductFields \subseteq DOMAIN body
    /\ body["title"].t = "str" /\ body["title"].v # ""
    /\ body["description"].t = "str"
    /\ body["price"].t \in {"float", "int"} /\ body["price"].v >= 0
    /\ body["category"].t = "str"
    /\ body["in_stock"].t = "bool"

\* the validated model handed to the handler: the five fields, price as a float
Product(body) ==
    [k \in ProductFields |-> IF k = "price" THEN Float(body[k].v) ELSE body[k]]

ValidBodies ==
    { MkProduct("Jump Rope", "Speed rope with ball bearings.", 1250, "Cardio", TRUE),
      MkProduct("Chalk", "", 0, "", FALSE) }

InvalidBodies ==
    { Pop(MkProduct("Bench", "Flat bench.", 9900, "Strength", TRUE), "price"),
      SetItem(MkProduct("Bench", "Flat bench.", 9900, "Strength", TRUE), "price", Str("abc")) }

Bodies == ValidBodies \cup InvalidBodies

\* seed_products' sample_products
sample_products ==
    << MkProduct("Adjustable Dumbbell (Pair)",
                 "Space-saving adjustable dumbbells with quick-select weight system.",
                 24999, "Strength", TRUE),
       MkProduct("Kettlebell 16kg",
                 "Cast iron kettlebell with flat base and comfortable handle.",
                 5999, "Strength", TRUE),
       MkProduct("Yoga Mat Pro",
                 "Non-slip, 6mm cushioning yoga mat for comfort and stability.",
                 3999, "Mobility", TRUE),
       MkProduct("Resistance Bands Set",
                 "Set of 5 bands with varying resistance levels and door anchor.",
                 2499, "Accessories", TRUE),
       MkProduct("Foldable Treadmill",
                 "Compact treadmill with incline and app connectivity.",
                 69900, "Cardio", TRUE) >>

\* `category` and `limit` query parameters tried
Categories == {None, Str(""), Str("Cardio")}
Limits == {None} \cup {PyInt(n) : n \in 1..MaxLimit}

------------------------------------------------------------------------------
(* Document Gateway: database.get_documents / database.create_document *)

NoFault == [exc |-> "none", msg |-> ""]
Exceptions == { [exc |-> "Exception", msg |-> "Database not available"],
                [exc |-> "ServerSelectionTimeoutError", msg |-> "connection refused"] }
Faults == {NoFault} \cup Exceptions

\* str(e) of an exception
str_exc(e) == Str(e.msg)

Matches(rec, filter_dict) ==
    \A k \in DOMAIN filter_dict : k \in DOMAIN rec /\ rec[k] = filter_dict[k]

Take(s, n) == SubSeq(s, 1, IF n < Len(s) THEN n ELSE Len(s))

\* list(collection, filter, limit): the matching records, at most `limit` of them
get_documents(st, filter_dict, limit, fault) ==
    IF fault # NoFault
    THEN [raised |-> TRUE, exc |-> fault, val |-> <<>>,
          call |-> [op |-> "get_documents", arg |-> filter_dict, exc |-> fault, out |-> <<>>]]
    ELSE LET all == SelectSeq(st, LAMBDA rec : Matches(rec, filter_dict))
             res == IF limit = None THEN all ELSE Take(all, limit.v)
         IN [raised |-> FALSE, exc |-> NoFault, val |-> res,
             call |-> [op |-> "get_documents", arg |-> filter_dict, exc |-> NoFault, out |-> res]]

\* create(collection, record): stores the record under a new identifier with the
\* store-managed creation timestamp, returns the identifier's string form
create_document(st, data, fault) ==
    IF fault # NoFault
    THEN [raised |-> TRUE, exc |-> fault, val |-> None, store |-> st,
          call |-> [op |-> "create_document", arg |-> data, exc |-> fault, out |-> None]]
    ELSE LET oid == ObjectId(Len(st) + 1)
             rec == SetItem(SetItem(data, "_id", oid), "created_at", Datetime(Len(st) + 1))
         IN [raised |-> FALSE, exc |-> NoFault, val |-> str(oid), store |-> Append(st, rec),
             call |-> [op |-> "create_document", arg |-> data, exc |-> NoFault, out |-> str(oid)]]

------------------------------------------------------------------------------
(* Responses *)

Http(status, body) == [kind |-> "response", status |-> status, body |-> body]
\* raise HTTPException(status_code=..., detail=...)
HTTPException(status, detail) == Http(status, [detail |-> detail])
\* an exception that leaves the handler
Unhandled(e) == [kind |-> "unhandled", status |-> 500, body |-> [exc |-> e]]

------------------------------------------------------------------------------
(* Handlers.  Each returns the response, the collection afterwards and the   *)
(* gateway calls it made.                                                    *)

\* the filter built with `if category is not None`
list_products_strict(st, category, limit, fault) ==
    LET filter_dict == IF category # None THEN [category |-> category] ELSE EmptyDict
        g == get_documents(st, filter_dict, limit, fault)
    IN IF g.raised
       THEN [resp |-> HTTPException(500, str_exc(g.exc)), store |-> st, calls |-> <<g.call>>]
       ELSE [resp |-> Http(200, serialize_all(g.val)), store |-> st, calls |-> <<g.call>>]

\* list_products(category, limit)
list_products(st, category, limit, fault) ==
    LET filter_dict == IF Truthy(category) THEN [category |-> category] ELSE EmptyDict
        g == get_documents(st, filter_dict, limit, fault)
    IN IF g.raised
       THEN [resp |-> HTTPException(500, str_exc(g.exc)), store |-> st, calls |-> <<g.call>>]
       ELSE [resp |-> Http(200, serialize_all(g.val)), store |-> st, calls |-> <<g.call>>]

\* create_product without its try/except
create_product_uncaught(st, product, fault) ==
    LET c == create_document(st, product, fault)
    IN IF c.raised
       THEN [resp |-> Unhandled(c.exc), store |-> c.store, calls |-> <<c.call>>]
       ELSE [resp |-> Http(200, [id |-> c.val]), store |-> c.store, calls |-> <<c.call>>]

\* create_product(product)
create_product(st, product, fault) ==
    LET c == create_document(st, product, fault)
    IN IF c.raised
       THEN [resp |-> HTTPException(500, str_exc(c.exc)), store |-> c.store, calls |-> <<c.call>>]
       ELSE [resp |-> Http(200, [id |-> c.val]), store |-> c.store, calls |-> <<c.call>>]

\* the route taking the body as a plain dict: no validation before the handler
post_products_unvalidated(st, body, fault) == create_product(st, body, fault)

\* POST /api/products with `product: Product`: the body is validated against the
\* Product shape before the handler runs
post_products(st, body, fault) ==
    IF ~ProductValid(body)
    THEN [resp |-> HTTPException(422, Str("validation error")), store |-> st, calls |-> <<>>]
    ELSE create_product(st, Product(body), fault)

CreatedIdsOf(log) ==
    {log[j].out : j \in {n \in 1..Len(log) : log[n].op = "create_document"}}

SeedNoop == Http(200, [status |-> Str("ok"), message |-> Str("Products already exist")])
SeedOk(n) == Http(200, [status |-> Str("ok"), count |-> PyInt(n)])

\* seed_products up to the loop: the existence check and the early return.
\* `loop` says that the handler goes on into the for loop.
seed_begin(st, fault) ==
    LET g == get_documents(st, EmptyDict, PyInt(1), fault)
        existing == g.val
    IN IF g.raised
       THEN [loop |-> FALSE, resp |-> HTTPException(500, str_exc(g.exc)), calls |-> <<g.call>>]
       ELSE IF existing # <<>>
       THEN [loop |-> FALSE, resp |-> SeedNoop, calls |-> <<g.call>>]
       ELSE [loop |-> TRUE, resp |-> SeedNoop, calls |-> <<g.call>>]

\* the loop undoing its inserts when a create_document fails
seed_step_rollback(st, i, log, fault) ==
    LET c == create_document(st, sample_products[i], fault)
        calls == Append(log, c.call)
        mine == CreatedIdsOf(log)
    IN IF c.raised
       THEN [loop |-> FALSE, resp |-> HTTPException(500, str_exc(c.exc)),
             store |-> SelectSeq(st, LAMBDA r : str(r["_id"]) \notin mine), calls |-> calls]
       ELSE IF i = Len(sample_products)
       THEN [loop |-> FALSE, resp |-> SeedOk(Len(sample_products)),
             store |-> c.store, calls |-> calls]
       ELSE [loop |-> TRUE, resp |-> SeedNoop, store |-> c.store, calls |-> calls]

\* the loop running over the samples from the last to the first
seed_step_reversed(st, i, log, fault) ==
    LET c == create_document(st, sample_products[Len(sample_products) + 1 - i], fault)
        calls == Append(log, c.call)
    IN IF c.raised
       THEN [loop |-> FALSE, resp |-> HTTPException(500, str_exc(c.exc)),
             store |-> c.store, calls |-> calls]
       ELSE IF i = Len(sample_products)
       THEN [loop |-> FALSE, resp |-> SeedOk(Len(sample_products)),
             store |-> c.store, calls |-> calls]
       ELSE [loop |-> TRUE, resp |-> SeedNoop, store |-> c.store, calls |-> calls]

\* the loop skipping a sample whose title the collection already holds
seed_step_dedup(st, i, log, fault) ==
    LET have == \E j \in 1..Len(st) : st[j]["title"] = sample_products[i]["title"]
        c == create_document(st, sample_products[i], fault)
        calls == IF have THEN log ELSE Append(log, c.call)
        after == IF have THEN st ELSE c.store
    IN IF c.raised /\ ~have
       THEN [loop |-> FALSE, resp |-> HTTPException(500, str_exc(c.exc)),
             store |-> after, calls |-> calls]
       ELSE IF i = Len(sample_products)
       THEN [loop |-> FALSE, resp |-> SeedOk(Len(sample_products)),
             store |-> after, calls |-> calls]
       ELSE [loop |-> TRUE, resp |-> SeedNoop, store |-> after, calls |-> calls]

\* one iteration of `for p in sample_products: create_document("product", p)`,
\* with the return after the last one
seed_step(st, i, log, fault) ==
    LET c == create_document(st, sample_products[i], fault)
        calls == Append(log, c.call)
    IN IF c.raised
       THEN [loop |-> FALSE, resp |-> HTTPException(500, str_exc(c.exc)),
             store |-> c.store, calls |-> calls]
       ELSE IF i = Len(sample_products)
       THEN [loop |-> FALSE, resp |-> SeedOk(Len(sample_products)),
             store |-> c.store, calls |-> calls]
       ELSE [loop |-> TRUE, resp |-> SeedNoop, store |-> c.store, calls |-> calls]

------------------------------------------------------------------------------
(* The product service: workers running handlers against the collection *)

NoRequest == [api |-> "none", req |-> EmptyDict,
              resp |-> Http(200, EmptyDict), calls |-> <<>>]

Done(api, req, resp, calls) ==
    [api |-> api, req |-> req, resp |-> resp, calls |-> calls]

InitStore ==
    /\ store = <<>>
    /\ pc = [p \in Procs |-> "idle"]
    /\ seedIdx = [p \in Procs |-> 0]
    /\ seedLog = [p \in Procs |-> <<>>]
    /\ last = NoRequest
    /\ created = {}

\* a worker takes up a request only after the previous response has gone out
Ready(p) == pc[p] = "idle" /\ last = NoRequest

ListProducts(p) ==
    /\ Ready(p)
    /\ \E category \in Categories, limit \in Limits, fault \in Faults :
         LET h == list_products(store, category, limit, fault)
         IN last' = Done("list_products", [category |-> category, limit |-> limit],
                         h.resp, h.calls)
    /\ UNCHANGED <<store, pc, seedIdx, seedLog, created>>

PostProducts(p) ==
    /\ Ready(p)
    /\ Cardinality(created) < MaxCreates
    /\ \E body \in Bodies, fault \in Faults :
         LET h == post_products(store, body, fault)
         IN /\ store' = h.store
            /\ last' = Done("create_product", [body |-> body], h.resp, h.calls)
            /\ created' = IF h.resp.kind = "response" /\ h.resp.status = 200
                          THEN created \cup {[product |-> body, id |-> h.resp.body.id]}
                          ELSE created
    /\ UNCHANGED <<pc, seedIdx, seedLog>>

SeedBegin(p) ==
    /\ Ready(p)
    /\ \E fault \in Faults :
         LET h == seed_begin(store, fault)
         IN IF h.loop
            THEN /\ pc' = [pc EXCEPT ![p] = "seed_loop"]
                 /\ seedIdx' = [seedIdx EXCEPT ![p] = 1]
                 /\ seedLog' = [seedLog EXCEPT ![p] = h.calls]
                 /\ UNCHANGED last
            ELSE /\ last' = Done("seed_products", EmptyDict, h.resp, h.calls)
                 /\ UNCHANGED <<pc, seedIdx, seedLog>>
    /\ UNCHANGED <<store, created>>

SeedStep(p) ==
    /\ pc[p] = "seed_loop"
    /\ last = NoRequest
    /\ \E fault \in Faults :
         LET h == seed_step(store, seedIdx[p], seedLog[p], fault)
         IN /\ store' = h.store
            /\ IF h.loop
               THEN /\ seedIdx' = [seedIdx EXCEPT ![p] = @ + 1]
                    /\ seedLog' = [seedLog EXCEPT ![p] = h.calls]
                    /\ UNCHANGED <<pc, last>>
               ELSE /\ pc' = [pc EXCEPT ![p] = "idle"]
                    /\ seedIdx' = [seedIdx EXCEPT ![p] = 0]
                    /\ seedLog' = [seedLog EXCEPT ![p] = <<>>]
                    /\ last' = Done("seed_products", EmptyDict, h.resp, h.calls)
    /\ UNCHANGED created

\* the response leaves the server
SendResponse ==
    /\ last # NoRequest
    /\ last' = NoRequest
    /\ UNCHANGED <<store, pc, seedIdx, seedLog, created>>

InitSerIdle ==
    /\ sin = None /\ sdoc = None /\ sret1 = None /\ sret2 = None /\ sphase = "off"

InitTestIdle == tresp = None

Init == InitStore /\ InitSerIdle /\ InitTestIdle

Next ==
    \/ SendResponse /\ UNCHANGED <<serVars, tresp>>
    \/ \E p \in Procs :
        \/ ListProducts(p) /\ UNCHANGED <<serVars, tresp>>
        \/ PostProducts(p) /\ UNCHANGED <<serVars, tresp>>
        \/ SeedBegin(p) /\ UNCHANGED <<serVars, tresp>>
        \/ SeedStep(p) /\ UNCHANGED <<serVars, tresp>>

Spec == Init /\ [][Next]_vars

------------------------------------------------------------------------------
(* serialize_doc on its own: a record is drawn, serialized, and the result   *)
(* serialized again.                                                         *)

SerKeys == {"_id", "id", "title", "created_at"}
SerVals ==
    {Str("Yoga Mat Pro"), Float(3999), Bool(TRUE), None}
        \cup {ObjectId(n) : n \in 1..MaxOid}
        \cup {str(ObjectId(n)) : n \in 1..MaxOid}
        \cup {Datetime(n) : n \in 0..MaxTick}
SerInputs == {None} \cup UNION {[K -> SerVals] : K \in SUBSET SerKeys}

InitSerialize ==
    /\ sin \in SerInputs
    /\ sdoc = sin
    /\ sret1 = None /\ sret2 = None
    /\ sphase = "input"
    /\ InitStore /\ InitTestIdle

SerializeFirst ==
    /\ sphase = "input"
    /\ LET run == serialize_doc_run(sdoc)
       IN sdoc' = run.doc /\ sret1' = run.ret
    /\ sphase' = "once"
    /\ UNCHANGED <<sin, sret2, storeVars, tresp>>

SerializeAgain ==
    /\ sphase = "once"
    /\ sret2' = serialize_doc(sret1)
    /\ sphase' = "twice"
    /\ UNCHANGED <<sin, sdoc, sret1, storeVars, tresp>>

NextSerialize == SerializeFirst \/ SerializeAgain

SpecSerialize == InitSerialize /\ [][NextSerialize]_vars

------------------------------------------------------------------------------
(* GET /test *)

ErrTextLimit == 50
MaxCollectionsShown == 10

RECURSIVE ErrText(_)
\* an exception text of n characters
ErrText(n) == IF n = 0 THEN "" ELSE ErrText(n - 1) \o ToString(n % 10)

CollectionNames(n) == [i \in 1..n |-> "collection" \o ToString(i)]

\* What the store does during one /test request:
\*   db       "none" (db is None) or "present"
\*   hasName  hasattr(db, "name")
\*   access   the exception raised while db is read, or NoFault
\*   lcn      the exception raised by db.list_collection_names(), or NoFault
\*   names    the collection names it returns otherwise
\*   url, dbname   whether DATABASE_URL / DATABASE_NAME are set
TestScenarios ==
    [db : {"none"}, hasName : {FALSE}, access : {NoFault}, lcn : {NoFault},
     names : {<<>>}, url : BOOLEAN, dbname : BOOLEAN]
    \cup
    [db : {"present"}, hasName : BOOLEAN,
     access : {[exc |-> "Exception", msg |-> ErrText(n)] : n \in 0..MaxErrLen},
     lcn : {NoFault}, names : {<<>>}, url : BOOLEAN, dbname : BOOLEAN]
    \cup
    [db : {"present"}, hasName : BOOLEAN, access : {NoFault},
     lcn : {[exc |-> "Exception", msg |-> ErrText(n)] : n \in 0..MaxErrLen},
     names : {<<>>}, url : BOOLEAN, dbname : BOOLEAN]
    \cup
    [db : {"present"}, hasName : BOOLEAN, access : {NoFault}, lcn : {NoFault},
     names : {CollectionNames(n) : n \in 0..MaxColls}, url : BOOLEAN, dbname : BOOLEAN]

\* the exception text without the slice: str(e)
Truncated_whole(e) == e.msg

\* str(e)[:50]
Truncated(e) == Take(e.msg, ErrTextLimit)

TestResponse0 ==
    [backend |-> "Running", database |-> "Not Available", database_url |-> "None",
     database_name |-> "None", connection_status |-> "Not Connected", collections |-> <<>>]

\* the try block of test_database: the response when it is left, and the
\* exception that leaves it (NoFault when none does)
test_try(sc) ==
    IF sc.db = "none"
    THEN [response |-> [TestResponse0 EXCEPT !.database = "Available but not initialized"],
          exc |-> NoFault]
    ELSE LET r1 == [TestResponse0 EXCEPT !.database = "Available",
                                         !.database_url = "Configured"]
         IN IF sc.access # NoFault
            THEN [response |-> r1, exc |-> sc.access]
            ELSE LET r2 == [r1 EXCEPT !.database_name =
                                          IF sc.hasName THEN "gymstore" ELSE "Connected",
                                      !.connection_status = "Connected"]
                 IN IF sc.lcn # NoFault
                    THEN [response |-> [r2 EXCEPT !.database =
                                           "Connected but Error: " \o Truncated(sc.lcn)],
                          exc |-> NoFault]
                    ELSE [response |-> [r2 EXCEPT
                                           !.collections = Take(sc.names, MaxCollectionsShown),
                                           !.database = "Connected & Working"],
                          exc |-> NoFault]

\* test_database()
test_database(sc) ==
    LET t == test_try(sc)
        r == IF t.exc # NoFault
             THEN [t.response EXCEPT !.database = "Error: " \o Truncated(t.exc)]
             ELSE t.response
    IN Http(200, [r EXCEPT !.database_url = IF sc.url THEN "Set" ELSE "Not Set",
                           !.database_name = IF sc.dbname THEN "Set" ELSE "Not Set"])

InitTest ==
    /\ tresp = None
    /\ InitStore /\ InitSerIdle

TestDatabase ==
    /\ \E sc \in TestScenarios : tresp' = [scenario |-> sc, resp |-> test_database(sc)]
    /\ UNCHANGED <<storeVars, serVars>>

NextTest == TestDatabase

SpecTest == InitTest /\ [][NextTest]_vars

------------------------------------------------------------------------------
(* Properties of serialize_doc *)

NonEmptyRecord(d) == IsDict(d) /\ DOMAIN d # {}

\* C5 as stated: for a non-empty record, the result has no "_id"; "id" holds
\* str(_id) when "_id" was present; every other field that is not timestamp-like,
\* a field already named "id" included, keeps its value; the input is untouched.
C5_AsStated ==
    (sphase # "input" /\ NonEmptyRecord(sin)) =>
        /\ "_id" \notin DOMAIN sret1
        /\ ("_id" \in DOMAIN sin =>
               "id" \in DOMAIN sret1 /\ sret1["id"] = str(sin["_id"]))
        /\ \A k \in DOMAIN sin \ {"_id"} :
               ~hasattr_isoformat(sin[k]) => k \in DOMAIN sret1 /\ sret1[k] = sin[k]
        /\ sdoc = sin

\* C5 amended: as above, except that a field already named "id" keeps its value
\* only in a record without "_id"; in a record with "_id" it is overwritten by
\* str(_id).  The result has the input's fields, "_id" replaced by "id".
C5_Serialized ==
    (sphase # "input" /\ NonEmptyRecord(sin)) =>
        /\ "_id" \notin DOMAIN sret1
        /\ DOMAIN sret1 = (DOMAIN sin \ {"_id"})
                             \cup (IF "_id" \in DOMAIN sin THEN {"id"} ELSE {})
        /\ ("_id" \in DOMAIN sin => sret1["id"] = str(sin["_id"]))
        /\ \A k \in DOMAIN sin \ {"_id"} :
               (~hasattr_isoformat(sin[k]) /\ ~(k = "id" /\ "_id" \in DOMAIN sin))
                   => sret1[k] = sin[k]
        /\ sdoc = sin

\* a record with "_id", an "id" of its own and a plain field has been serialized
C5_Witness ==
    /\ sphase = "once"
    /\ {"_id", "id", "title"} \subseteq DOMAIN sin
    /\ sin["_id"].t = "ObjectId"
    /\ sin["id"] # str(sin["_id"])
    /\ sret1["id"] = str(sin["_id"])
    /\ sret1["title"] = sin["title"]

\* C6: serialize_doc(serialize_doc(d)) = serialize_doc(d), and no "_id" is left
\* after the first application.
C6_Idempotent ==
    /\ sphase = "twice" => sret2 = sret1
    /\ sphase # "input" => "_id" \notin DOMAIN sret1

\* a record with an ObjectId "_id" and a datetime field has been serialized twice
C6_Witness ==
    /\ sphase = "twice"
    /\ {"_id", "created_at"} \subseteq DOMAIN sin
    /\ sin["_id"].t = "ObjectId" /\ sin["created_at"].t = "datetime"
    /\ sret2["id"] = str(sin["_id"])
    /\ sret2["created_at"] = isoformat(sin["created_at"])
    /\ sret2 # sin

------------------------------------------------------------------------------
(* Properties of the product handlers.  A response stays in `last` until it  *)
(* is sent and no handler runs meanwhile, so `store` is the collection as    *)
(* the responding handler left it.                                           *)

Responded(api) == last # NoRequest /\ last.api = api
Ok(api) == Responded(api) /\ last.resp.kind = "response" /\ last.resp.status = 200

Titles(recs) == [i \in 1..Len(recs) |-> recs[i]["title"].v]
StoredIds(recs) == {str(recs[i]["_id"]) : i \in 1..Len(recs)}
WithIds(recs, ids) == SelectSeq(recs, LAMBDA r : str(r["_id"]) \in ids)
\* identifiers returned by the create_document calls of a call log
CreatedIds(calls) ==
    {calls[i].out : i \in {j \in 1..Len(calls) :
                              calls[j].op = "create_document" /\ calls[j].exc = NoFault}}
CountTitle(recs, title) == Cardinality({i \in 1..Len(recs) : recs[i]["title"].v = title})

\* C1: without storage failure, a seed call whose existence check found the
\* collection empty inserts exactly five records, with the five sample titles in
\* their order, and returns {status: ok, count: 5}; a seed call on a collection
\* holding a record inserts nothing and returns the no-op status.
C1_Seed ==
    /\ (Ok("seed_products") /\ Len(last.calls) > 1) =>
          /\ last.resp.body = [status |-> Str("ok"), count |-> PyInt(5)]
          /\ last.calls[1].out = <<>>
          /\ Len(last.calls) = 6
          /\ Cardinality(CreatedIds(last.calls)) = 5
          /\ Titles(WithIds(store, CreatedIds(last.calls)))
                = << "Adjustable Dumbbell (Pair)", "Kettlebell 16kg", "Yoga Mat Pro",
                     "Resistance Bands Set", "Foldable Treadmill" >>
    /\ (Ok("seed_products") /\ Len(last.calls) = 1) =>
          /\ store # <<>>
          /\ last.calls[1].op = "get_documents"
          /\ last.resp.body =
                [status |-> Str("ok"), message |-> Str("Products already exist")]
    /\ \A p \in Procs : pc[p] = "seed_loop" => seedLog[p][1].out = <<>>
    /\ (Responded("seed_products") /\ Len(last.calls) = 1 /\ store # <<>>
           /\ last.calls[1].exc = NoFault) => last.resp = SeedNoop

\* a seed of the empty collection has returned, the collection holding its five records
C1_Witness ==
    /\ Ok("seed_products")
    /\ last.resp.body = [status |-> Str("ok"), count |-> PyInt(5)]
    /\ Len(store) = 5

\* C2: a seed call that has passed the existence check inserts each of its
\* samples whatever the collection holds by then: for every sample, the
\* collection holds at least one record per seed call that is past it.
C2_NoDedup ==
    \A k \in 1..Len(sample_products) :
        CountTitle(store, sample_products[k]["title"].v)
            >= Cardinality({p \in Procs : pc[p] = "seed_loop" /\ seedIdx[p] > k})

\* both seed calls have returned and the collection holds ten records, each
\* sample title twice
C2_Witness ==
    /\ Len(store) = 10
    /\ \A k \in 1..Len(sample_products) :
           CountTitle(store, sample_products[k]["title"].v) = 2
    /\ \A p \in Procs : pc[p] = "idle"

\* C3: a successful create_product returns a non-empty string identifier that no
\* record stored before carries, and a later list_products with the product's
\* category and no limit returns a record with that identifier whose five
\* fields equal the input.
C3_CreateThenList ==
    /\ Ok("create_product") =>
          LET id == last.resp.body.id
              n == Len(store)
          IN /\ id.t = "str" /\ id.v # ""
             /\ n >= 1 /\ str(store[n]["_id"]) = id
             /\ id \notin StoredIds(SubSeq(store, 1, n - 1))
             /\ \A k \in ProductFields : store[n][k] = last.req.body[k]
    /\ (Ok("list_products") /\ last.req.limit = None) =>
          \A c \in created :
              c.product["category"] = last.req.category =>
                  \E i \in 1..Len(last.resp.body) :
                      /\ last.resp.body[i]["id"] = c.id
                      /\ \A k \in ProductFields : last.resp.body[i][k] = c.product[k]
                      /\ \A j \in 1..Len(last.resp.body) :
                             last.resp.body[j]["id"] = c.id => j = i

\* a product created into a collection that held records is listed by its category
C3_Witness ==
    /\ Ok("list_products") /\ last.req.limit = None
    /\ Len(last.resp.body) > 1
    /\ \E c \in created :
          /\ c.product["category"] = last.req.category
          /\ Truthy(last.req.category)
          /\ \E i \in 2..Len(last.resp.body) : last.resp.body[i]["id"] = c.id

\* C4: list_products with a non-empty category returns only records of that
\* category (all of them when there is no limit); with category absent or ""
\* it passes the empty filter and returns the records of every category.
C4_Filter ==
    Ok("list_products") =>
        LET cat == last.req.category
            body == last.resp.body
            want == IF cat # None /\ cat.v # ""
                    THEN SelectSeq(store, LAMBDA r : r["category"] = cat)
                    ELSE store
        IN /\ (cat # None /\ cat.v # "") =>
                 /\ last.calls[1].arg = [category |-> cat]
                 /\ \A i \in 1..Len(body) : body[i]["category"] = cat
           /\ (cat = None \/ cat.v = "") => last.calls[1].arg = EmptyDict
           /\ Len(body) = (IF last.req.limit = None \/ last.req.limit.v > Len(want)
                           THEN Len(want) ELSE last.req.limit.v)
           /\ \A i \in 1..Len(body) : body[i] = serialize_doc(want[i])

\* category="" has listed a collection holding a record of category "" and
\* records of other categories: all of them are returned
C4_Witness ==
    /\ Ok("list_products") /\ last.req.category = Str("") /\ last.req.limit = None
    /\ \E i, j \in 1..Len(last.resp.body) :
          /\ last.resp.body[i]["category"] = Str("")
          /\ last.resp.body[j]["category"] = Str("Cardio")

\* C7: in list_products, create_product and seed_products a gateway failure
\* ends the handler (no call follows the failed one) with a 500 response whose
\* detail is the error's text; no exception leaves a handler.
C7_Caught ==
    /\ last # NoRequest =>
          /\ last.resp.kind = "response"
          /\ \A i \in 1..Len(last.calls) :
                last.calls[i].exc # NoFault =>
                    /\ i = Len(last.calls)
                    /\ last.resp.status = 500
                    /\ last.resp.body = [detail |-> Str(last.calls[i].exc.msg)]
          /\ last.resp.status = 500 =>
                Len(last.calls) >= 1 /\ last.calls[Len(last.calls)].exc # NoFault
    /\ \A p \in Procs : \A i \in 1..Len(seedLog[p]) : seedLog[p][i].exc = NoFault

\* a seed call has failed at one of its create_document calls
C7_Witness ==
    /\ Responded("seed_products")
    /\ Len(last.calls) > 2
    /\ last.calls[Len(last.calls)].exc # NoFault
    /\ last.resp = HTTPException(500, Str("connection refused"))

InvalidPrice(body) == "price" \notin DOMAIN body \/ body["price"].t \notin {"float", "int"}

\* C9: a create request without price, or with a price that is not a number, gets
\* a client error; create_document is not called and the collection is unchanged.
C9_Rejected ==
    [][ (last = NoRequest /\ last'.api = "create_product" /\ InvalidPrice(last'.req.body))
          => /\ last'.resp.kind = "response"
             /\ last'.resp.status \in 400..499
             /\ last'.calls = <<>>
             /\ store' = store ]_vars

\* a body whose price is the text "abc" was rejected while the collection held records
C9_Witness ==
    /\ Responded("create_product")
    /\ "price" \in DOMAIN last.req.body /\ last.req.body["price"].t = "str"
    /\ last.resp.status = 422
    /\ store # <<>>

\* a seed call whose create_document failed on sample k, after an existence
\* check that found the collection empty
SeedFailedAt(k) ==
    /\ Responded("seed_products")
    /\ Len(last.calls) = k + 1
    /\ last.calls[k + 1].op = "create_document"
    /\ last.calls[k + 1].exc # NoFault

SeedBeginsOn(st) ==
    /\ last = NoRequest /\ st # <<>>
    /\ \/ \E p \in Procs : pc[p] = "idle" /\ pc'[p] = "seed_loop"
       \/ /\ last'.api = "seed_products" /\ Len(last'.calls) = 1
          /\ last'.calls[1].exc = NoFault

\* C10 as stated: when create_document fails on sample k (1 <= k <= 5) the call
\* returns a server error, the k-1 records inserted stay, and later seed calls
\* see a non-empty collection.
C10_AsStated ==
    \A k \in 1..5 :
        SeedFailedAt(k) =>
            /\ last.resp.status = 500
            /\ Titles(WithIds(store, CreatedIds(last.calls)))
                  = SubSeq(Titles(sample_products), 1, k - 1)
            /\ store # <<>>

\* C10 amended: for 2 <= k <= 5 the call returns a server error and its k-1
\* records stay; the collection never becomes empty again, and every later seed
\* call whose existence check succeeds returns the no-op status and inserts
\* nothing.  For k = 1 the call has inserted nothing.
C10_Partial ==
    /\ [](\A k \in 1..5 :
            SeedFailedAt(k) =>
                /\ last.resp.status = 500
                /\ Titles(WithIds(store, CreatedIds(last.calls)))
                      = SubSeq(Titles(sample_products), 1, k - 1)
                /\ k >= 2 => store # <<>>)
    /\ [][ /\ store # <<>> => store' # <<>>
           /\ SeedBeginsOn(store) =>
                 /\ last'.resp = SeedNoop
                 /\ store' = store
                 /\ pc' = pc ]_vars

\* a seed call has failed on its third sample: two of its records are stored
C10_Witness ==
    /\ SeedFailedAt(3)
    /\ Len(store) = 2

------------------------------------------------------------------------------
(* Properties of GET /test *)

\* `field` is `prefix` followed by the first 50 characters of `msg`
ErrorString(field, prefix, msg) ==
    /\ Len(field) <= Len(prefix) + 50
    /\ \E n \in 0..(IF Len(msg) < 50 THEN Len(msg) ELSE 50) :
          /\ field = prefix \o SubSeq(msg, 1, n)
          /\ n = 50 \/ n = Len(msg)

\* C8: test_database returns its diagnostic object with status 200 whatever the
\* store does; an error ends as a descriptive string in "database", with at most
\* 50 characters of the exception text, and "collections" has at most 10 names.
C8_NeverFails ==
    tresp # None =>
        LET sc == tresp.scenario
            r == tresp.resp
        IN /\ r.kind = "response" /\ r.status = 200
           /\ DOMAIN r.body = {"backend", "database", "database_url", "database_name",
                               "connection_status", "collections"}
           /\ Len(r.body.collections) <= 10
           /\ r.body.collections = SubSeq(sc.names, 1, Len(r.body.collections))
           /\ Len(sc.names) <= 10 => r.body.collections = sc.names
           /\ sc.db = "none" => r.body.database = "Available but not initialized"
           /\ sc.access # NoFault => ErrorString(r.body.database, "Error: ", sc.access.msg)
           /\ sc.lcn # NoFault =>
                 ErrorString(r.body.database, "Connected but Error: ", sc.lcn.msg)
           /\ (sc.db = "present" /\ sc.access = NoFault /\ sc.lcn = NoFault) =>
                 r.body.database = "Connected & Working"

\* list_collection_names has raised an exception whose text is longer than 50
C8_Witness ==
    /\ tresp # None
    /\ tresp.scenario.lcn # NoFault
    /\ Len(tresp.scenario.lcn.msg) > 50
    /\ tresp.resp.status = 200
    /\ Len(tresp.resp.body.database) = Len("Connected but Error: ") + 50

====
